---- MODULE Spec2Model ----
(***************************************************************************)
(* Model of src/mymalloc.c: a first-fit allocator over one static arena.   *)
(*                                                                         *)
(* The arena global_arr is an array of MEMLENGTH doubles; the model keeps  *)
(* memory as a function from word index (one word = one double = 8 bytes)  *)
(* to the integer stored there.  A block header (struct meta, 16 bytes) at *)
(* byte offset o keeps `size` in word o/8 and `in_use` in word o/8 + 1.    *)
(* Pointers are byte offsets from global_arr; NULL is a value that is no   *)
(* offset.                                                                 *)
(*                                                                         *)
(* mymalloc and myfree are modelled loop iteration by loop iteration: pc   *)
(* is the position inside the running call and no other call can start     *)
(* until pc is back at "idle" (the program is single threaded).            *)
(*                                                                         *)
(* An access outside global_arr (or through NULL) is undefined behaviour.  *)
(* Its outcomes are a nondeterministic choice.  The process may die        *)
(* (action Segfault, pc = "crashed").  Otherwise the words that follow the *)
(* arena (TailWords) behave as memory of unknown content: the first read   *)
(* of such a word yields any value of Garbage, and from then on, or once   *)
(* the allocator has written the word, it holds that value (known).  An    *)
(* access past TailWords can only die.  A read through NULL that does not  *)
(* die leaves the arena alone.                                             *)
(*                                                                         *)
(* Between calls the caller may write to a payload it holds (action        *)
(* store).  The allocator reads a payload only where its walk takes the    *)
(* payload's first word for a header, so the model stores only there.      *)
(***************************************************************************)
EXTENDS Integers, FiniteSets, Sequences, TLC

\* Bounds of the model.
ArenaUnits == 6     \* the arena holds ArenaUnits headers of 16 bytes (source: 2048)
OobHeaders == 2     \* mapped 16-byte units past the arena's end; beyond is unmapped
MaxCalls == 6       \* calls of mymalloc and myfree in one run

\* Program constants.
SIZEOF_DOUBLE == 8
MEMLENGTH == 2 * ArenaUnits
META_SIZE == 16
FREE == 0
IN_USE == 1
NULL == -1

block_size == MEMLENGTH * SIZEOF_DOUBLE

\* The words of global_arr, the mapped words after it, and both.
Words == 0 .. (MEMLENGTH - 1)
TailWords == MEMLENGTH .. (MEMLENGTH + 2 * OobHeaders - 1)
AllWords == 0 .. (MEMLENGTH + 2 * OobHeaders - 1)

ALIGNMENT(x) == ((x + 7) \div 8) * 8

\* What the first read of a word outside the arena may yield.
Garbage == [size : {0, block_size}, in_use : {FREE, IN_USE}]

Word(o) == o \div SIZEOF_DOUBLE

SizeWord(head) == Word(head)
InUseWord(head) == Word(head) + 1
HeaderWords(head) == {SizeWord(head), InUseWord(head)}

\* The word of head->size, resp. head->in_use, lies outside global_arr.
SizeOob(head) == SizeWord(head) \notin Words
InUseOob(head) == InUseWord(head) \notin Words
HeaderOob(head) == SizeOob(head) \/ InUseOob(head)

\* Memory m with the words ws of the header at head that lie after the arena
\* and have no known value yet given the values g.
Resolve(m, k, head, ws, g) ==
    [w \in AllWords |->
       IF w \in (ws \cap TailWords) \ k
       THEN IF w = SizeWord(head) THEN g.size ELSE g.in_use
       ELSE m[w]]

Touch(k, ws) == k \cup (ws \cap TailWords)

\* The values the first read of the words ws of the header at head may yield:
\* a field that is not read for the first time has one (unused) value.
GarbageAt(k, head, ws) ==
    LET unknown == (ws \cap TailWords) \ k IN
    {g \in Garbage :
       /\ SizeWord(head) \notin unknown => g.size = 0
       /\ InUseWord(head) \notin unknown => g.in_use = FREE}

getBlockSize(m, head) == m[SizeWord(head)]

setBlockSize(m, head, size) == [m EXCEPT ![SizeWord(head)] = size]

isBlockInUse(m, head) == m[InUseWord(head)] = IN_USE

setBlockFree(m, head) == [m EXCEPT ![InUseWord(head)] = FREE]

setBlockInUse(m, head) == [m EXCEPT ![InUseWord(head)] = IN_USE]

getPayload(head) == head + META_SIZE

getNextBlock(m, head) == head + META_SIZE + getBlockSize(m, head)

\* getBlockStatus reads the first header of the arena only.
getBlockStatus(m) ==
    IF getBlockSize(m, 0) = block_size /\ ~isBlockInUse(m, 0) THEN 1 ELSE 0

\* A merge test that looks at the status of next only.
NextFree(m, current, next) == ~isBlockInUse(m, next)

\* coalesce's merge test (line 109): current and next are both free.
BothFree(m, current, next) ==
    ~isBlockInUse(m, current) /\ ~isBlockInUse(m, next)

\* The loop of coalesce(head), head # NULL.  Every header it reads starts
\* inside the arena; oob records that it read next->in_use in the first word
\* after the arena (next starts in the arena's last word).
RECURSIVE coalesceLoop(_, _, _, _)
coalesceLoop(m, current, coalesced, oob) ==
    IF ~(current < block_size)
    THEN [mem |-> m, coalesced |-> coalesced, oob |-> oob]
    ELSE LET next == getNextBlock(m, current) IN
         IF next >= block_size
         THEN [mem |-> m, coalesced |-> coalesced, oob |-> oob]
         ELSE LET curFree == ~isBlockInUse(m, current)
                  o2 == oob \/ (curFree /\ InUseOob(next))
              IN  IF BothFree(m, current, next)
                  THEN coalesceLoop(
                         setBlockSize(m, current,
                            getBlockSize(m, current) + META_SIZE
                              + getBlockSize(m, next)),
                         current, 1, o2)
                  ELSE coalesceLoop(m, next, coalesced, o2)

coalesce(m, head) == coalesceLoop(m, head, 0, FALSE)

VARIABLES
    mem,            \* global_arr and the words after it, word by word
    known,          \* the words after the arena whose value has been read or written
    pc,             \* "idle", the position inside the running call, or "crashed"
    op,             \* the running (or last) call and its argument; history: wasLive,
                    \* the pointer was live at the call; again, the call before
                    \* was myfree of the same live pointer and freed it; pair,
                    \* the call before was the mymalloc that returned the
                    \* pointer, and before, the memory when that mymalloc
                    \* started (else empty)
    result,         \* what the last call returned / printed
    total_size,     \* mymalloc: META_SIZE + aligned size
    current,        \* mymalloc, myfree: the walk's block (byte offset)
    prev,           \* myfree: the previous block of the walk, or NULL
    current_byte,   \* mymalloc, myfree: the walk's byte counter
    found,          \* myfree: the pointer was matched
    live,           \* history: pointers handed out and not yet freed
    memAtCall,      \* history: memory when the running call started
    oob,            \* history: the running call accessed memory outside the arena
    calls           \* history: the number of calls made so far

vars == <<mem, known, pc, op, result, total_size, current, prev, current_byte,
          found, live, memAtCall, oob, calls>>

locals == <<total_size, current, prev, current_byte, found>>

Init ==
    /\ mem = [w \in AllWords |-> 0]
    /\ known = {}
    /\ pc = "idle"
    /\ op = [name |-> "none", arg |-> 0, wasLive |-> FALSE, again |-> FALSE,
             pair |-> FALSE, before |-> <<>>]
    /\ result = [kind |-> "none", ptr |-> NULL]
    /\ total_size = 0
    /\ current = 0
    /\ prev = NULL
    /\ current_byte = 0
    /\ found = 0
    /\ live = {}
    /\ memAtCall = [w \in AllWords |-> 0]
    /\ oob = FALSE
    /\ calls = 0

ResetLocals ==
    /\ total_size' = 0
    /\ current' = 0
    /\ prev' = NULL
    /\ current_byte' = 0
    /\ found' = 0

Return(kind, ptr) ==
    /\ pc' = "idle"
    /\ result' = [kind |-> kind, ptr |-> ptr]
    /\ ResetLocals

\* The size check without the header's share of the arena.
InvalidSizeNoHeader(size) == size <= 0 \/ size > block_size

\* mymalloc's size check (line 123).
InvalidSize(size) == size <= 0 \/ size > block_size - META_SIZE

\* mymalloc, lines 121-141: the size check and the lazy initialisation.
mymalloc(size) ==
    /\ pc = "idle"
    /\ calls < MaxCalls
    /\ calls' = calls + 1
    /\ op' = [name |-> "mymalloc", arg |-> size, wasLive |-> FALSE,
              again |-> FALSE, pair |-> FALSE, before |-> <<>>]
    /\ memAtCall' = mem
    /\ oob' = FALSE
    /\ UNCHANGED <<live, known>>
    /\ IF InvalidSize(size)
       THEN /\ Return("InvalidSize", NULL)
            /\ UNCHANGED mem
       ELSE /\ mem' = IF getBlockSize(mem, 0) = 0 /\ getBlockStatus(mem) # 0
                      THEN setBlockFree(
                             setBlockSize(mem, 0, block_size - META_SIZE), 0)
                      ELSE mem
            /\ total_size' = META_SIZE + ALIGNMENT(size)
            /\ current' = 0
            /\ current_byte' = 0
            /\ pc' = "malloc_walk"
            /\ result' = [kind |-> "pending", ptr |-> NULL]
            /\ UNCHANGED <<prev, found>>

\* mymalloc, lines 144-176: one test of the loop condition and one iteration.
mymalloc_walk ==
    /\ pc = "malloc_walk"
    /\ UNCHANGED <<op, memAtCall, calls>>
    /\ IF ~(current_byte < block_size)
       THEN /\ Return("OutOfMemory", NULL)
            /\ UNCHANGED <<mem, known, live, oob>>
       ELSE /\ HeaderWords(current) \subseteq AllWords
            /\ \E g \in GarbageAt(known, current, HeaderWords(current)) :
                 LET m0 == Resolve(mem, known, current, HeaderWords(current), g)
                     curr_size == getBlockSize(m0, current)
                     remaining_size == curr_size - total_size
                     m1 == setBlockSize(setBlockInUse(m0, current),
                                        current, total_size)
                     next_block == getNextBlock(m1, current)
                 IN  IF ~isBlockInUse(m0, current) /\ curr_size >= total_size
                     THEN IF remaining_size >= META_SIZE + 8
                          THEN /\ HeaderWords(next_block) \subseteq AllWords
                               /\ mem' = setBlockFree(
                                           setBlockSize(m1, next_block,
                                                        remaining_size),
                                           next_block)
                               /\ known' = Touch(known, HeaderWords(current)
                                                 \cup HeaderWords(next_block))
                               /\ oob' = (oob \/ HeaderOob(current)
                                              \/ HeaderOob(next_block))
                               /\ live' = live \cup {getPayload(current)}
                               /\ Return("Allocated", getPayload(current))
                          ELSE /\ mem' = IF remaining_size > 0
                                         THEN setBlockSize(m1, current, curr_size)
                                         ELSE m1
                               /\ known' = Touch(known, HeaderWords(current))
                               /\ oob' = (oob \/ HeaderOob(current))
                               /\ live' = live \cup {getPayload(current)}
                               /\ Return("Allocated", getPayload(current))
                     ELSE /\ mem' = m0
                          /\ known' = Touch(known, HeaderWords(current))
                          /\ current_byte' = current_byte + curr_size
                          /\ current' = getNextBlock(m0, current)
                          /\ oob' = (oob \/ HeaderOob(current))
                          /\ UNCHANGED <<live, pc, result, total_size,
                                         prev, found>>

\* myfree, lines 180-192: the NULL check and the walk's initialisation.
myfree(ptr) ==
    /\ pc = "idle"
    /\ calls < MaxCalls
    /\ calls' = calls + 1
    /\ op' = [name |-> "myfree", arg |-> ptr, wasLive |-> ptr \in live,
              again |-> (op.name = "myfree" /\ op.arg = ptr /\ op.wasLive
                           /\ result.kind = "Freed"),
              pair |-> (op.name = "mymalloc" /\ result.kind = "Allocated"
                          /\ result.ptr = ptr),
              before |-> IF op.name = "mymalloc" /\ result.kind = "Allocated"
                            /\ result.ptr = ptr
                         THEN memAtCall ELSE <<>>]
    /\ memAtCall' = mem
    /\ oob' = FALSE
    /\ UNCHANGED <<mem, known, live>>
    /\ IF ptr = NULL
       THEN Return("NullPointer", NULL)
       ELSE /\ current' = 0
            /\ prev' = NULL
            /\ found' = 0
            /\ current_byte' = 0
            /\ pc' = "free_walk"
            /\ result' = [kind |-> "pending", ptr |-> NULL]
            /\ UNCHANGED total_size

\* myfree, lines 195-207 and 221-224: the loop condition, then the comparison
\* of the block's payload address with ptr.
myfree_walk ==
    /\ pc = "free_walk"
    /\ UNCHANGED <<op, memAtCall, calls>>
    /\ IF ~(current_byte < block_size)
       THEN /\ Return(IF found # 1 THEN "PointerNotFound" ELSE "Freed", NULL)
            /\ UNCHANGED <<mem, known, live, oob>>
       ELSE IF getPayload(current) = op.arg
            THEN /\ InUseWord(current) \in AllWords
                 /\ \E g \in GarbageAt(known, current, {InUseWord(current)}) :
                      LET m0 == Resolve(mem, known, current,
                                        {InUseWord(current)}, g)
                      IN  IF ~isBlockInUse(m0, current)
                          THEN /\ Return("DoubleFree", NULL)
                               /\ mem' = m0
                               /\ UNCHANGED live
                          ELSE /\ mem' = setBlockFree(m0, current)
                               /\ found' = 1
                               /\ live' = live \ {op.arg}
                               /\ pc' = "free_coalesce"
                               /\ UNCHANGED <<result, total_size, current, prev,
                                              current_byte>>
                 /\ known' = Touch(known, {InUseWord(current)})
                 /\ oob' = (oob \/ InUseOob(current))
            ELSE /\ pc' = "free_coalesce"
                 /\ UNCHANGED <<mem, known, live, oob, result, locals>>

\* One call coalesce(head) of myfree, head # NULL: the memory, the known words
\* and the flags it leaves, with g the value of the word after the arena in
\* case the call reads it for the first time.
coalesceCall(m, k, head, g) ==
    LET r == coalesce(Resolve(m, k, block_size - 8, {MEMLENGTH}, g), head)
    IN  IF r.oob
        THEN [mem |-> r.mem, known |-> Touch(k, {MEMLENGTH}),
              coalesced |-> r.coalesced, oob |-> TRUE]
        ELSE [mem |-> coalesce(m, head).mem, known |-> k,
              coalesced |-> r.coalesced, oob |-> FALSE]

\* myfree, line 210: coalesce(current).
myfree_coalesce ==
    /\ pc = "free_coalesce"
    /\ \E g \in GarbageAt(known, block_size - 8, {MEMLENGTH}) :
         LET r == coalesceCall(mem, known, current, g) IN
         /\ mem' = r.mem
         /\ known' = r.known
         /\ oob' = (oob \/ r.oob)
    /\ pc' = "free_coalesce_prev"
    /\ UNCHANGED <<op, result, live, memAtCall, locals, calls>>

\* myfree, lines 211-213: coalesce(prev), then the test prev != NULL.
\* coalesce(NULL) reads NULL->size; an execution that survives it leaves the
\* arena alone and the test prev != NULL fails.
myfree_coalesce_prev ==
    /\ pc = "free_coalesce_prev"
    /\ IF prev = NULL
       THEN /\ oob' = TRUE
            /\ UNCHANGED <<mem, known, current>>
       ELSE \E g \in GarbageAt(known, block_size - 8, {MEMLENGTH}) :
              LET r == coalesceCall(mem, known, prev, g) IN
              /\ mem' = r.mem
              /\ known' = r.known
              /\ oob' = (oob \/ r.oob)
              /\ current' = IF r.coalesced # 0 THEN prev ELSE current
    /\ pc' = "free_advance"
    /\ UNCHANGED <<op, result, live, memAtCall, total_size, prev, current_byte,
                   found, calls>>

\* myfree, lines 216-218: the step to the next block.
myfree_advance ==
    /\ pc = "free_advance"
    /\ SizeWord(current) \in AllWords
    /\ \E g \in GarbageAt(known, current, {SizeWord(current)}) :
         LET m0 == Resolve(mem, known, current, {SizeWord(current)}, g) IN
         /\ mem' = m0
         /\ current_byte' = current_byte + getBlockSize(m0, current)
         /\ current' = getNextBlock(m0, current)
    /\ known' = Touch(known, {SizeWord(current)})
    /\ prev' = current
    /\ oob' = (oob \/ SizeOob(current))
    /\ pc' = "free_walk"
    /\ UNCHANGED <<op, result, live, memAtCall, total_size, found, calls>>

\* The step the running call takes next accesses memory outside global_arr.
PendingOob ==
    \/ /\ pc = "malloc_walk"
       /\ current_byte < block_size
       /\ \/ HeaderOob(current)
          \/ /\ ~HeaderOob(current)
             /\ ~isBlockInUse(mem, current)
             /\ getBlockSize(mem, current) - total_size >= META_SIZE + 8
             /\ HeaderOob(current + META_SIZE + total_size)
    \/ /\ pc = "free_walk"
       /\ current_byte < block_size
       /\ getPayload(current) = op.arg
       /\ InUseOob(current)
    \/ /\ pc = "free_coalesce"
       /\ \E g \in GarbageAt(known, block_size - 8, {MEMLENGTH}) :
            coalesceCall(mem, known, current, g).oob
    \/ /\ pc = "free_coalesce_prev"
       /\ IF prev = NULL
          THEN TRUE
          ELSE \E g \in GarbageAt(known, block_size - 8, {MEMLENGTH}) :
                 coalesceCall(mem, known, prev, g).oob
    \/ /\ pc = "free_advance"
       /\ SizeOob(current)

\* The access outside the arena kills the process, and its locals with it.
Segfault ==
    /\ PendingOob
    /\ pc' = "crashed"
    /\ oob' = TRUE
    /\ ResetLocals
    /\ UNCHANGED <<mem, known, op, result, live, memAtCall, calls>>

(***************************************************************************)
(* The block chain a walk from the arena's start sees,                     *)
(***************************************************************************)

\* The headers met from offset o on, each next one at header end + size, as
\* long as the header lies inside the arena.
RECURSIVE ChainFrom(_, _)
ChainFrom(m, o) ==
    IF o < 0 \/ HeaderOob(o)
    THEN <<>>
    ELSE <<o>> \o ChainFrom(m, o + META_SIZE + m[Word(o)])

Chain(m) == ChainFrom(m, 0)

Blocks(m) == LET c == Chain(m) IN {c[i] : i \in DOMAIN c}

SizeOf(m, b) == m[Word(b)]

IsFree(m, b) == m[Word(b) + 1] # IN_USE

Footprint(m, b) == META_SIZE + SizeOf(m, b)

\* Arguments the callers pass.  For mymalloc the sizes around its thresholds:
\* the invalid sizes 0 and CAPACITY, the largest valid size, a size that needs
\* rounding, two small sizes, and the size that leaves 2 * META_SIZE of the
\* formatted arena's footprint.  For myfree NULL, an address inside the first header, the payload address of a
\* header that would start at the arena's end, every live pointer, the pointer
\* of the call before, and the payload start of every block of the chain.
Sizes ==
    {0, 1, 16, 32, block_size - 3 * META_SIZE, block_size - META_SIZE,
     block_size}

Pointers ==
    {NULL, 8, block_size + META_SIZE}
      \cup live
      \cup (IF op.name = "myfree" THEN {op.arg} ELSE {})
      \cup {getPayload(b) : b \in Blocks(mem)}

\* What the caller stores in the first word of a payload it holds: a value
\* that is no block size, so large that a block of that size ends in
\* unmapped memory.
StoreValues == {8 * block_size + 1}

\* The caller writes to the payload mymalloc returned (line 165).  A store
\* matters to the allocator only where a walk reads a header, so the model
\* has the caller store only in a payload whose first word the chain reads
\* as a header's size.
store(ptr, value) ==
    /\ pc = "idle"
    /\ ptr \in live
    /\ ptr \in Blocks(mem)
    /\ mem[Word(ptr)] # value
    /\ mem' = [mem EXCEPT ![Word(ptr)] = value]
    /\ op' = [name |-> "store", arg |-> ptr, wasLive |-> TRUE, again |-> FALSE,
              pair |-> FALSE, before |-> <<>>]
    /\ result' = [kind |-> "none", ptr |-> NULL]
    /\ memAtCall' = mem
    /\ UNCHANGED <<known, pc, live, oob, calls, locals>>

Next ==
    \/ \E size \in Sizes : mymalloc(size)
    \/ mymalloc_walk
    \/ \E ptr \in Pointers : myfree(ptr)
    \/ myfree_walk
    \/ myfree_coalesce
    \/ myfree_coalesce_prev
    \/ myfree_advance
    \/ Segfault
    \/ \E ptr \in live, value \in StoreValues : store(ptr, value)

Spec == Init /\ [][Next]_vars

\* The running call always takes its next step.
FairSpec == Spec /\ WF_vars(Next)

RECURSIVE SumFootprints(_, _)
SumFootprints(m, c) ==
    IF c = <<>> THEN 0 ELSE Footprint(m, Head(c)) + SumFootprints(m, Tail(c))

\* The arena is one FREE block of payload block_size - META_SIZE.
OneFreeBlock(m) ==
    /\ SizeOf(m, 0) = block_size - META_SIZE
    /\ IsFree(m, 0)

\* The call that runs (or has just returned) is mymalloc with a valid size.
ValidMalloc == op.name = "mymalloc" /\ op.arg > 0 /\ op.arg <= block_size - META_SIZE

TotalOf(size) == META_SIZE + ALIGNMENT(size)

\* C1: between calls, the footprints HEADER_SIZE + payload_size of the blocks
\* walked from the arena's start add up to the arena's capacity exactly.
CapacityConservation ==
    pc = "idle" => SumFootprints(mem, Chain(mem)) = block_size

\* C2: between calls, the payload of every IN_USE block of the chain lies
\* inside the arena, and the payloads are disjoint from each other and from
\* every header of the chain.
PayloadsInsideArena ==
    pc = "idle" =>
      \A b \in Blocks(mem) :
        ~IsFree(mem, b) =>
          /\ getPayload(b) + SizeOf(mem, b) <= block_size
          /\ \A c \in Blocks(mem) :
               c # b => \/ c + META_SIZE <= getPayload(b)
                        \/ getPayload(b) + SizeOf(mem, b) <= c

\* C3: the first call, mymalloc with a valid size on the untouched arena,
\* formats the arena as one FREE block before it searches, and mymalloc(16)
\* returns the payload at arena start + HEADER_SIZE.
FreshArenaAllocation ==
    (calls = 1 /\ ValidMalloc) =>
      /\ pc = "malloc_walk" /\ current = 0 /\ current_byte = 0 => OneFreeBlock(mem)
      /\ pc = "idle" /\ op.arg = 16 =>
           result = [kind |-> "Allocated", ptr |-> META_SIZE]

\* A pointer whose block header lies inside the arena.
ArenaPointer(p) == p >= META_SIZE /\ p <= block_size

\* C4: myfree of a live pointer succeeds, and a second myfree of the same
\* pointer right after it reports DoubleFree and changes no header.
NoDoubleFree ==
    (pc = "idle" /\ op.name = "myfree" /\ ArenaPointer(op.arg)) =>
      /\ op.wasLive => result.kind = "Freed"
      /\ op.again => result.kind = "DoubleFree" /\ mem = memAtCall

\* C5: mymalloc with size 0 or size > CAPACITY - HEADER_SIZE returns at once with
\* InvalidSize and a null pointer, never walks the arena (so it never reports
\* OutOfMemory), and leaves the arena unchanged.
OutOfRangeRejected ==
    (op.name = "mymalloc" /\ (op.arg = 0 \/ op.arg + META_SIZE > block_size)) =>
      /\ pc = "idle"
      /\ result = [kind |-> "InvalidSize", ptr |-> NULL]
      /\ mem = memAtCall
      /\ ~oob

\* C5 witness: mymalloc(CAPACITY) was rejected on an arena that holds blocks.
OutOfRangeRejectedWitness ==
    /\ pc = "idle"
    /\ op.name = "mymalloc"
    /\ op.arg = block_size
    /\ result.kind = "InvalidSize"
    /\ mem[0] # 0
    /\ live # {}

\* The pointer of the running myfree is the payload start of no block the
\* chain held when the call started.
ForeignPointer ==
    /\ op.name = "myfree"
    /\ op.arg # NULL
    /\ op.arg \notin {getPayload(b) : b \in Blocks(memAtCall)}

\* C6: myfree of a pointer that is no block's payload start changes no header
\* at any point of the call and reports PointerNotFound.
ForeignPointerRejected ==
    ForeignPointer =>
      /\ mem = memAtCall
      /\ pc = "idle" => result.kind = "PointerNotFound"

\* C7: once a myfree has returned the last outstanding pointer, the arena is
\* one FREE block of payload CAPACITY - HEADER_SIZE again.
CoalescingRoundTrip ==
    (pc = "idle" /\ op.name = "myfree" /\ result.kind = "Freed" /\ live = {}
       /\ ArenaPointer(op.arg)) =>
      /\ OneFreeBlock(mem)
      /\ Chain(mem) = <<0>>

\* The FREE blocks of the chain at the call whose footprint holds the request.
Fits(m, total) ==
    {b \in Blocks(m) : IsFree(m, b) /\ Footprint(m, b) >= total}

\* C8: on a formatted arena the walk of mymalloc passes no FREE block whose
\* footprint holds the request: it returns the payload of the lowest such block
\* and reports OutOfMemory only when there is none.
FirstFit ==
    (ValidMalloc /\ memAtCall[0] # 0) =>
      LET fits == Fits(memAtCall, TotalOf(op.arg)) IN
      /\ pc = "malloc_walk" => \A b \in fits : current <= b
      /\ pc = "idle" /\ result.kind = "OutOfMemory" => fits = {}
      /\ pc = "idle" /\ result.kind = "Allocated" =>
           /\ result.ptr - META_SIZE \in fits
           /\ \A b \in fits : result.ptr - META_SIZE <= b

\* C9: when mymalloc returns the payload of candidate c, with remaining the
\* candidate's footprint less HEADER_SIZE + rounded size: remaining below
\* HEADER_SIZE + 8 leaves the candidate's footprint whole; otherwise a new FREE
\* block follows the allocated block inside the candidate's old footprint.
SplitThreshold ==
    (pc = "idle" /\ ValidMalloc /\ result.kind = "Allocated"
       /\ result.ptr - META_SIZE \in Blocks(memAtCall)) =>
      LET c == result.ptr - META_SIZE
          remaining == Footprint(memAtCall, c) - TotalOf(op.arg)
          new == c + Footprint(mem, c)
      IN  IF remaining < META_SIZE + 8
          THEN Footprint(mem, c) = Footprint(memAtCall, c)
          ELSE /\ new < c + Footprint(memAtCall, c)
               /\ new \in Blocks(mem)
               /\ IsFree(mem, new)
               /\ SizeOf(mem, new) >= 8

\* C10: every call that has started returns: it completes or reports a
\* failure after finitely many steps.
Termination == (pc # "idle") ~> (pc = "idle")

\* Two neighbours of the chain of m are both FREE.
AdjacentFree(m) ==
    \E i \in 1 .. (Len(Chain(m)) - 1) :
       IsFree(m, Chain(m)[i]) /\ IsFree(m, Chain(m)[i + 1])

\* C11: between calls, after any completed mymalloc or myfree on a formatted
\* arena, no two adjacent blocks of the chain are both FREE.
NoAdjacentFree ==
    (pc = "idle" /\ calls > 0 /\ mem[0] # 0) => ~AdjacentFree(mem)

\* C12: during any call every header read or written lies inside the arena
\* and none is reached through NULL, and a walk that leaves its loop has
\* counted exactly CAPACITY bytes.
WalkBounds ==
    /\ ~oob
    /\ ~PendingOob
    /\ (pc \in {"malloc_walk", "free_walk"} /\ ~(current_byte < block_size)) =>
         current_byte = block_size

\* mymalloc has returned the payload of the block at c, a block of the chain
\* at the call, and has made it smaller: it split the block.
SplitAt(c) ==
    /\ pc = "idle"
    /\ ValidMalloc
    /\ result = [kind |-> "Allocated", ptr |-> getPayload(c)]
    /\ c \in Blocks(memAtCall)
    /\ SizeOf(mem, c) # SizeOf(memAtCall, c)

\* C13: when mymalloc splits a candidate, the allocated block records the
\* rounded request as its payload size, the new FREE block starts at candidate
\* + HEADER_SIZE + rounded request with payload remaining - HEADER_SIZE, and
\* the two footprints add up to the candidate's footprint before the call.
SplitSizes ==
    \A c \in Blocks(memAtCall) :
       SplitAt(c) =>
         LET rounded == ALIGNMENT(op.arg)
             remaining == Footprint(memAtCall, c) - TotalOf(op.arg)
             new == c + META_SIZE + rounded
         IN  /\ SizeOf(mem, c) = rounded
             /\ ~HeaderOob(new)
             /\ IsFree(mem, new)
             /\ SizeOf(mem, new) = remaining - META_SIZE
             /\ Footprint(mem, c) + Footprint(mem, new) = Footprint(memAtCall, c)

\* mymalloc has returned the payload of the block at c, a block of the chain
\* at the call.
AllocatedAt(c) ==
    /\ pc = "idle"
    /\ ValidMalloc
    /\ result = [kind |-> "Allocated", ptr |-> getPayload(c)]
    /\ c \in Blocks(memAtCall)

\* The words of the arena the call has changed.
Changed == {w \in Words : mem[w] # memAtCall[w]}

\* The call changed words of the header at c only, or of that header and of
\* one more header that lies inside the footprint c had.
WritesInsideCandidate(c) ==
    \/ Changed \subseteq HeaderWords(c)
    \/ \E n \in (c + META_SIZE) .. (c + Footprint(memAtCall, c) - META_SIZE) :
          Changed \subseteq HeaderWords(c) \cup HeaderWords(n)

\* Every block of the chain at the call other than c is a block of the chain
\* now, with the size and the status it had.
OthersKept(c) ==
    \A b \in Blocks(memAtCall) \ {c} :
       /\ b \in Blocks(mem)
       /\ SizeOf(mem, b) = SizeOf(memAtCall, b)
       /\ IsFree(mem, b) = IsFree(memAtCall, b)

\* C14: a successful mymalloc changes the header of the selected block and,
\* if it splits, writes one new header inside the selected block's old
\* footprint; every other block of the chain keeps offset, size and status.
AllocateFrame ==
    \A c \in Blocks(memAtCall) :
       AllocatedAt(c) => WritesInsideCandidate(c) /\ OthersKept(c)

\* The writes alone stay inside the candidate's old footprint.
AllocateFrameWrites ==
    \A c \in Blocks(memAtCall) : AllocatedAt(c) => WritesInsideCandidate(c)

\* The blocks of the chain at the call that are IN_USE and whose payload is
\* not the pointer of the call.
OtherInUse ==
    {b \in Blocks(memAtCall) :
       ~IsFree(memAtCall, b) /\ getPayload(b) # op.arg}

\* C15: at no point of a myfree call, whatever the pointer, has an IN_USE
\* block other than the one the pointer names changed offset, size or status.
DeallocateFrame ==
    op.name = "myfree" =>
      LET now == Blocks(mem) IN
      \A b \in OtherInUse :
         /\ b \in now
         /\ SizeOf(mem, b) = SizeOf(memAtCall, b)
         /\ ~IsFree(mem, b)

\* C15 witness: a myfree that freed its block and merged it with the FREE
\* block after it has returned, and another block of the chain is IN_USE.
DeallocateFrameWitness ==
    /\ pc = "idle"
    /\ op.name = "myfree"
    /\ result.kind = "Freed"
    /\ OtherInUse # {}
    /\ op.arg - META_SIZE \in Blocks(memAtCall)
    /\ SizeOf(mem, op.arg - META_SIZE) > SizeOf(memAtCall, op.arg - META_SIZE)

\* The blocks of the chain of m: offset, size and status of each.
BlockView(m) ==
    [b \in Blocks(m) |-> [size |-> SizeOf(m, b), free |-> IsFree(m, b)]]

\* C16: on a formatted arena, a mymalloc that reports OutOfMemory and a
\* myfree that reports NullPointer or DoubleFree (for a pointer whose header
\* lies inside the arena) leave every block of the chain as it was.
NoPartialMutation ==
    (/\ pc = "idle"
     /\ memAtCall[0] # 0
     /\ \/ op.name = "mymalloc" /\ result.kind = "OutOfMemory"
        \/ op.name = "myfree" /\ result.kind = "NullPointer"
        \/ op.name = "myfree" /\ result.kind = "DoubleFree"
             /\ ArenaPointer(op.arg)) =>
      BlockView(mem) = BlockView(memAtCall)

\* C17: from a formatted arena with no two adjacent FREE blocks, a successful
\* p = mymalloc(n) followed at once by myfree(p) gives back the chain as it
\* was before the mymalloc: every block's offset, size and status.
AllocFreeRoundTrip ==
    (/\ pc = "idle"
     /\ op.name = "myfree"
     /\ op.pair
     /\ ArenaPointer(op.arg)
     /\ op.before[0] # 0
     /\ ~AdjacentFree(op.before)) =>
      /\ result.kind = "Freed"
      /\ BlockView(mem) = BlockView(op.before)

\* The block at head and the block after it are both FREE blocks whose
\* headers lie inside the arena.
Mergeable(m, head) ==
    /\ ~HeaderOob(head)
    /\ ~HeaderOob(getNextBlock(m, head))
    /\ IsFree(m, head)
    /\ IsFree(m, getNextBlock(m, head))

\* Memory m after the one merge of the block at head with the block after
\* it, or m itself if the two are not both FREE.
SingleMerge(m, head) ==
    IF Mergeable(m, head)
    THEN setBlockSize(m, head,
                      SizeOf(m, head) + META_SIZE
                        + SizeOf(m, getNextBlock(m, head)))
    ELSE m

\* Memories m and n hold the same arena.
SameArena(m, n) == \A w \in Words : m[w] = n[w]

\* C18: on a formatted arena, one call coalesce(block) made by myfree that
\* reads no word outside the arena leaves the arena as the single merge of
\* block with its next neighbour leaves it (unchanged if they are not both
\* FREE), and coalesce(prev) reports a merge exactly when that merge took
\* place.
CoalesceSingleMerge ==
    [][ mem[0] # 0 =>
          /\ (pc = "free_coalesce" /\ pc' = "free_coalesce_prev"
                /\ ~coalesce(mem, current).oob) =>
                SameArena(mem', SingleMerge(mem, current))
          /\ (pc = "free_coalesce_prev" /\ pc' = "free_advance"
                /\ prev # NULL /\ ~coalesce(mem, prev).oob) =>
                /\ SameArena(mem', SingleMerge(mem, prev))
                /\ (current' = prev) <=> Mergeable(mem, prev) ]_vars

\* C19: every block of the chain has a size that is a multiple of 8, and
\* the block whose payload mymalloc has just returned is IN_USE with a size of
\* at least the request rounded up to a multiple of 8.
SizesAligned ==
    /\ \A b \in Blocks(mem) : SizeOf(mem, b) % 8 = 0
    /\ \A c \in Blocks(memAtCall) :
          AllocatedAt(c) =>
            ~IsFree(mem, c) /\ SizeOf(mem, c) >= ALIGNMENT(op.arg)

====
